---------------------------- MODULE Spec2Model ----------------------------
(***************************************************************************)
(* Agentic Mailing Orchestrator.                                           *)
(*                                                                         *)
(* A model of the dispatch endpoint (src/app/api/send/route.ts, POST) and  *)
(* of the page that prepares its requests (src/app/page.tsx, HomePage).    *)
(*                                                                         *)
(* Strings are sequences of one-character strings, so that trimming,       *)
(* lower-casing, concatenation and the e-mail syntax check are computed.   *)
(* A JavaScript `undefined` is the value Undefined, `null` is Null.        *)
(***************************************************************************)
EXTENDS Integers, Sequences, FiniteSets, TLC

(***************************************************************************)
(* Bounds of the model.                                                    *)
(***************************************************************************)
\* Most agents in a request drawn for the endpoint.
MaxAgents == 2
\* Most recipients of one agent in a request drawn for the endpoint.
MaxRecipients == 2
\* Most calls of a pure function on the same arguments.
MaxCalls == 2

\* Requests the endpoint handles (one alone, two side by side, or two side
\* by side and a third after them).
Reqs == {1, 2, 3}
\* Transport scripts: the outcome of the k-th sendMail call of a script.
Scripts == {1, 2, 3}

(***************************************************************************)
(* Strings.                                                                *)
(***************************************************************************)
Undefined == <<"undefined">>
Null == <<"null">>

\* JavaScript truthiness of a string-or-undefined value.
Truthy(s) == s # Undefined /\ s # Null /\ s # <<>>

\* a || b on string-or-undefined values.
OrElse(a, b) == IF Truthy(a) THEN a ELSE b

UpperLetters == {"A", "B", "C", "D", "E", "F", "G", "H", "I", "J", "K", "L",
                 "M", "N", "O", "P", "Q", "R", "S", "T", "U", "V", "W", "X",
                 "Y", "Z"}
LowerLetters == {"a", "b", "c", "d", "e", "f", "g", "h", "i", "j", "k", "l",
                 "m", "n", "o", "p", "q", "r", "s", "t", "u", "v", "w", "x",
                 "y", "z"}
Digits == {"0", "1", "2", "3", "4", "5", "6", "7", "8", "9"}
Letters == UpperLetters \cup LowerLetters
Whitespace == {" ", "\n", "\t"}

DigitValue(c) ==
  CASE c = "0" -> 0 [] c = "1" -> 1 [] c = "2" -> 2 [] c = "3" -> 3
    [] c = "4" -> 4 [] c = "5" -> 5 [] c = "6" -> 6 [] c = "7" -> 7
    [] c = "8" -> 8 [] c = "9" -> 9 [] OTHER -> 0

RECURSIVE Flatten(_)
\* The concatenation of a sequence of strings.
Flatten(ss) == IF ss = <<>> THEN <<>> ELSE Head(ss) \o Flatten(Tail(ss))

\* Index of the first occurrence of character c in s, 0 when there is none.
IndexOf(s, c) ==
  IF \E i \in 1..Len(s) : s[i] = c
  THEN CHOOSE i \in 1..Len(s) : s[i] = c /\ \A j \in 1..(i - 1) : s[j] # c
  ELSE 0

(***************************************************************************)
(* z.string().email(), zod's e-mail syntax: the text does not start with   *)
(* a dot and holds no two dots in a row; the local part is one or more of  *)
(* letters, digits and _ ' + - . and does not end with ' or a dot; after   *)
(* the @ come one or more labels (a letter or digit, then letters, digits  *)
(* or hyphens, then a dot) and a last label of two or more letters.        *)
(* Letter case is ignored.                                                 *)
(***************************************************************************)
AlphaNum == Letters \cup Digits
LocalChars == AlphaNum \cup {"_", "'", "+", "-", "."}
LocalLast == AlphaNum \cup {"_", "+", "-"}

\* labels: the domain cut at its dots; every label but the last is
\* [A-Z0-9][A-Z0-9-]*, the last is [A-Z]{2,}.
IsDomain(d) ==
  LET dots == {i \in 1..Len(d) : d[i] = "."}
      lastDot == IF dots = {} THEN 0
                 ELSE CHOOSE i \in dots : \A j \in dots : j <= i
      starts == {1} \cup {i + 1 : i \in dots \ {lastDot}}
  IN  /\ dots # {}
      /\ Len(d) - lastDot >= 2
      /\ \A i \in (lastDot + 1)..Len(d) : d[i] \in Letters
      /\ \A i \in 1..lastDot : d[i] \in AlphaNum \cup {"-", "."}
      /\ \A i \in starts : i <= lastDot /\ d[i] \in AlphaNum

IsEmail(s) ==
  LET at == IndexOf(s, "@")
      local == SubSeq(s, 1, at - 1)
      domain == SubSeq(s, at + 1, Len(s))
  IN  /\ s # Undefined
      /\ at > 1
      /\ s[1] # "."
      /\ \A i \in 1..(Len(s) - 1) : ~(s[i] = "." /\ s[i + 1] = ".")
      /\ \A i \in 1..Len(local) : local[i] \in LocalChars
      /\ local[Len(local)] \in LocalLast
      /\ IsDomain(domain)


(***************************************************************************)
(* The dispatch endpoint: src/app/api/send/route.ts                        *)
(***************************************************************************)

\* One violation of emailRequestSchema: where (agent and recipient index,
\* 0 when the place is above them), which field, and zod's issue code.
Issue(a, r, f, c) == [agent |-> a, recipient |-> r, field |-> f, code |-> c]

\* z.string(): a string is required.
StringIssues(v, a, r, f) ==
  IF v = Undefined THEN {Issue(a, r, f, "invalid_type")} ELSE {}

\* z.string().min(1)
MinOneIssues(v, a, r, f) ==
  IF v = Undefined THEN {Issue(a, r, f, "invalid_type")}
  ELSE IF Len(v) < 1 THEN {Issue(a, r, f, "too_small")} ELSE {}

\* z.string().email()
EmailIssues(v, a, r, f) ==
  IF v = Undefined THEN {Issue(a, r, f, "invalid_type")}
  ELSE IF ~IsEmail(v) THEN {Issue(a, r, f, "invalid_string")} ELSE {}

RecipientIssues(rc, a, r) ==
  EmailIssues(rc.to, a, r, "to")
    \cup MinOneIssues(rc.subject, a, r, "subject")
    \cup MinOneIssues(rc.body, a, r, "body")

AgentIssues(ag, a) ==
  StringIssues(ag.id, a, 0, "id")
    \cup StringIssues(ag.name, a, 0, "name")
    \cup (IF Len(ag.recipients) < 1
          THEN {Issue(a, 0, "recipients", "too_small")} ELSE {})
    \cup UNION {RecipientIssues(ag.recipients[r], a, r) :
                  r \in 1..Len(ag.recipients)}

\* from: z.object({email: z.string().email().optional(),
\*                 name: z.string().optional()}).partial().optional()
FromIssues(from) ==
  IF from.present /\ from.email # Undefined
  THEN EmailIssues(from.email, 0, 0, "from.email")
  ELSE {}

\* SchemaIssues with the .min(1) of the agents array left out.
SchemaIssuesWithoutMin(body) ==
  UNION {AgentIssues(body.agents[a], a) : a \in 1..Len(body.agents)}
    \cup FromIssues(body.from)

\* emailRequestSchema.safeParse(json).error.issues; empty on success.
SchemaIssues(body) ==
  (IF Len(body.agents) < 1 THEN {Issue(0, 0, "agents", "too_small")} ELSE {})
    \cup UNION {AgentIssues(body.agents[a], a) : a \in 1..Len(body.agents)}
    \cup FromIssues(body.from)

RECURSIVE EscapeHtml(_)
\* .replace(/&/g, "&amp;").replace(/</g, "&lt;").replace(/>/g, "&gt;")
\*  .replace(/\n/g, "<br/>") of buildHtmlBody, character by character.
EscapeHtml(t) ==
  IF t = <<>> THEN <<>>
  ELSE (CASE Head(t) = "&" -> <<"&", "a", "m", "p", ";">>
          [] Head(t) = "<" -> <<"&", "l", "t", ";">>
          [] Head(t) = ">" -> <<"&", "g", "t", ";">>
          [] Head(t) = "\n" -> <<"<", "b", "r", "/", ">">>
          [] OTHER -> <<Head(t)>>) \o EscapeHtml(Tail(t))

\* The styled container is the pair of its opening and closing tag, written
\* as two characters of their own around the escaped text.
buildHtmlBody(plainText) == <<"<div>", "\n">> \o EscapeHtml(plainText) \o <<"\n", "</div>">>

\* `${name} <${email}>`
NameAddr(name, email) == name \o <<" ", "<">> \o email \o <<">">>

\* resolveFromHeader with the `if (!email) return null` left out.
resolveFromHeaderUnchecked(from, e) ==
  LET defaultEmail ==
        OrElse(e.MAIL_FROM, OrElse(e.SMTP_FROM, OrElse(e.SMTP_USER, <<>>)))
      defaultName ==
        OrElse(e.MAIL_FROM_NAME, OrElse(e.SMTP_FROM_NAME, OrElse(e.MAIL_FROM, <<>>)))
      email == OrElse(from.email, defaultEmail)
      name == OrElse(from.name, defaultName)
  IN  IF Truthy(name) THEN NameAddr(name, email) ELSE email

resolveFromHeader(from, e) ==
  LET defaultEmail ==
        OrElse(e.MAIL_FROM, OrElse(e.SMTP_FROM, OrElse(e.SMTP_USER, <<>>)))
      defaultName ==
        OrElse(e.MAIL_FROM_NAME, OrElse(e.SMTP_FROM_NAME, OrElse(e.MAIL_FROM, <<>>)))
      email == OrElse(from.email, defaultEmail)
      name == OrElse(from.name, defaultName)
  IN  IF ~Truthy(email) THEN Null
      ELSE IF Truthy(name) THEN NameAddr(name, email) ELSE email

RECURSIVE NumberOf(_, _)
\* Number(text) for a text of decimal digits, acc the value read so far.
NumberOf(t, acc) ==
  IF t = <<>> THEN acc ELSE NumberOf(Tail(t), 10 * acc + DigitValue(Head(t)))

DefaultPort == 587

NoTransport == [kind |-> "none", host |-> Undefined, port |-> 0,
                secure |-> FALSE, auth |-> Undefined]

JsonTransport == [kind |-> "json", host |-> Undefined, port |-> 0,
                  secure |-> FALSE, auth |-> Undefined]

\* nodemailer.createTransport({ host, port, secure, auth })
SmtpTransport(e) ==
  [kind |-> "smtp",
   host |-> e.SMTP_HOST,
   port |-> IF Truthy(e.SMTP_PORT) THEN NumberOf(e.SMTP_PORT, 0) ELSE DefaultPort,
   secure |-> e.SMTP_SECURE = <<"t", "r", "u", "e">>,
   auth |-> IF Truthy(e.SMTP_USER) /\ Truthy(e.SMTP_PASS)
            THEN <<e.SMTP_USER, e.SMTP_PASS>> ELSE Undefined]

\* createTransport choosing the dry run when the credentials are missing
\* instead of the host.
createTransportByCredentials(e) ==
  IF ~(Truthy(e.SMTP_USER) /\ Truthy(e.SMTP_PASS))
  THEN [transport |-> JsonTransport, dryRun |-> TRUE]
  ELSE [transport |-> SmtpTransport(e), dryRun |-> FALSE]

\* createTransport: `if (!host)` the JSON transport and dryRun: true.
createTransport(e) ==
  IF ~Truthy(e.SMTP_HOST)
  THEN [transport |-> JsonTransport, dryRun |-> TRUE]
  ELSE [transport |-> SmtpTransport(e), dryRun |-> FALSE]

\* The argument of transport.sendMail for one recipient of one agent.
Envelope(fromHdr, agent, recipient) ==
  [from |-> fromHdr,
   to |-> IF Truthy(recipient.name) THEN NameAddr(recipient.name, recipient.to)
          ELSE recipient.to,
   subject |-> recipient.subject,
   text |-> recipient.body,
   html |-> buildHtmlBody(recipient.body),
   agentHeader |-> IF Truthy(agent.name) THEN agent.name ELSE Undefined]

RECURSIVE SumSent(_)
\* summary.reduce((acc, item) => acc + item.sent, 0)
SumSent(sm) == IF sm = <<>> THEN 0 ELSE Head(sm).sent + SumSent(Tail(sm))

\* A response of the endpoint: the HTTP status, the ok flag, and the message
\* as its template and the values written into it.
Response(status, ok, template, recipient, total, agents, issues) ==
  [status |-> status, ok |-> ok, template |-> template, recipient |-> recipient,
   total |-> total, agents |-> agents, issues |-> issues]

NoResponse == Response(0, FALSE, "none", Undefined, 0, 0, {})

MalformedResponse ==
  Response(400, FALSE, "Malformed JSON payload.", Undefined, 0, 0, {})

InvalidResponse(issues) ==
  Response(422, FALSE, "Invalid payload.", Undefined, 0, 0, issues)

MissingSenderResponse ==
  Response(400, FALSE, "Missing sender identity. Supply from.email in the request or configure MAIL_FROM (and optional MAIL_FROM_NAME) environment variables.",
           Undefined, 0, 0, {})

SendFailureResponse(to) ==
  Response(500, FALSE, "Failed to dispatch email to ${recipient.to}. Check server logs for details.",
           to, 0, 0, {})

SuccessResponse(dry, total, agents) ==
  IF dry
  THEN Response(200, TRUE, "Dry run: generated ${total} email payloads across ${summary.length} agents. Configure SMTP_HOST to send live emails.",
                Undefined, total, agents, {})
  ELSE Response(200, TRUE, "Dispatched ${total} emails across ${summary.length} agents.",
                Undefined, total, agents, {})


\* The request body: malformed JSON, or the agents and the from object, whose
\* absent fields are Undefined.
NoFrom == [present |-> FALSE, email |-> Undefined, name |-> Undefined]

MalformedBody == [malformed |-> TRUE, agents |-> <<>>, from |-> NoFrom]

Body(ags, from) == [malformed |-> FALSE, agents |-> ags, from |-> from]

(***************************************************************************)
(* State.  Every variable of the endpoint is a function of the request:    *)
(* POST keeps no state between requests.                                   *)
(***************************************************************************)
VARIABLES
  json,        \* the request body as sent (malformed, or agents and from)
  env,         \* process.env of the server handling the request
  script,      \* the transport script the request's sends are answered by
  outcomes,    \* per script, the outcomes of its sendMail calls so far
  pc,          \* where POST stands
  fromHeader,  \* resolveFromHeader's result
  transport,   \* createTransport's transport
  dryRun,      \* createTransport's dryRun
  ai,          \* index of the agent the outer loop is at
  ri,          \* index of the recipient the inner loop is at
  sent,        \* the inner loop's counter
  summary,     \* the summary array
  inFlight,    \* sendMail calls made and not yet settled
  calls,       \* every sendMail call made, in order
  settled,     \* the outcome each settled sendMail call had, in order
  log,         \* console.info and console.error records
  response,    \* the response returned
  \* The page's state (useState of HomePage).
  uploadResult, emailColumn, nameColumn, agents, sending, sendResult,
  fromEmail, fromName,
  reading,     \* the files handleUpload is reading (await file.arrayBuffer())
  uuids,       \* how many ids uuid() has given out
  \* A call of one of the page's pure functions.
  call         \* the function, its arguments and, once it returned, its result

serverVars == <<json, env, script, outcomes, pc, fromHeader, transport, dryRun,
                ai, ri, sent, summary, inFlight, calls, settled, log, response>>

clientVars == <<uploadResult, emailColumn, nameColumn, agents, sending,
                sendResult, fromEmail, fromName, reading, uuids>>

vars == <<serverVars, clientVars, call>>

Agents(r) == json[r].agents
Agent(r) == Agents(r)[ai[r]]
Recipient(r) == Agent(r).recipients[ri[r]]

\* const json = await request.json().catch(() => null); if (!json) ...
ParseBody(r) ==
  /\ pc[r] = "received"
  /\ IF json[r].malformed
     THEN /\ response' = [response EXCEPT ![r] = MalformedResponse]
          /\ pc' = [pc EXCEPT ![r] = "done"]
     ELSE /\ pc' = [pc EXCEPT ![r] = "validate"]
          /\ UNCHANGED response
  /\ UNCHANGED <<json, env, script, outcomes, fromHeader, transport, dryRun,
                 ai, ri, sent, summary, inFlight, calls, settled, log>>
  /\ UNCHANGED <<clientVars, call>>

\* const parsed = emailRequestSchema.safeParse(json); if (!parsed.success) ...
Validate(r) ==
  /\ pc[r] = "validate"
  /\ IF SchemaIssues(json[r]) # {}
     THEN /\ response' = [response EXCEPT ![r] = InvalidResponse(SchemaIssues(json[r]))]
          /\ pc' = [pc EXCEPT ![r] = "done"]
     ELSE /\ pc' = [pc EXCEPT ![r] = "resolveFrom"]
          /\ UNCHANGED response
  /\ UNCHANGED <<json, env, script, outcomes, fromHeader, transport, dryRun,
                 ai, ri, sent, summary, inFlight, calls, settled, log>>
  /\ UNCHANGED <<clientVars, call>>

\* const fromHeader = resolveFromHeader(parsed.data.from ?? {});
\* if (!fromHeader) ...
ResolveSender(r) ==
  /\ pc[r] = "resolveFrom"
  /\ fromHeader' = [fromHeader EXCEPT ![r] = resolveFromHeader(json[r].from, env[r])]
  /\ IF ~Truthy(fromHeader'[r])
     THEN /\ response' = [response EXCEPT ![r] = MissingSenderResponse]
          /\ pc' = [pc EXCEPT ![r] = "done"]
     ELSE /\ pc' = [pc EXCEPT ![r] = "createTransport"]
          /\ UNCHANGED response
  /\ UNCHANGED <<json, env, script, outcomes, transport, dryRun,
                 ai, ri, sent, summary, inFlight, calls, settled, log>>
  /\ UNCHANGED <<clientVars, call>>

\* const { transport, dryRun } = createTransport(); const summary = [];
\* and the entry of the outer loop.
CreateTransport(r) ==
  /\ pc[r] = "createTransport"
  /\ transport' = [transport EXCEPT ![r] = createTransport(env[r]).transport]
  /\ dryRun' = [dryRun EXCEPT ![r] = createTransport(env[r]).dryRun]
  /\ summary' = [summary EXCEPT ![r] = <<>>]
  /\ ai' = [ai EXCEPT ![r] = 1]
  /\ ri' = [ri EXCEPT ![r] = 1]
  /\ sent' = [sent EXCEPT ![r] = 0]
  /\ pc' = [pc EXCEPT ![r] = "loop"]
  /\ UNCHANGED <<json, env, script, outcomes, fromHeader, inFlight, calls,
                 settled, log, response>>
  /\ UNCHANGED <<clientVars, call>>

\* SendMail without the await: the call is made and the loop goes on to the
\* next recipient at once.
SendMailWithoutAwait(r) ==
  /\ pc[r] = "loop"
  /\ ai[r] <= Len(Agents(r))
  /\ ri[r] <= Len(Agent(r).recipients)
  /\ calls' = [calls EXCEPT ![r] =
                 Append(@, [agent |-> ai[r], recipient |-> ri[r],
                            address |-> Recipient(r).to,
                            mail |-> Envelope(fromHeader[r], Agent(r), Recipient(r))])]
  /\ inFlight' = [inFlight EXCEPT ![r] = @ \cup {<<ai[r], ri[r]>>}]
  /\ sent' = [sent EXCEPT ![r] = @ + 1]
  /\ ri' = [ri EXCEPT ![r] = @ + 1]
  /\ UNCHANGED <<json, env, script, outcomes, pc, fromHeader, transport,
                 dryRun, ai, summary, settled, log, response>>
  /\ UNCHANGED <<clientVars, call>>

\* transport.sendMail({...}) is called for the recipient the loops are at;
\* POST is suspended at the await until the call settles.
SendMail(r) ==
  /\ pc[r] = "loop"
  /\ ai[r] <= Len(Agents(r))
  /\ ri[r] <= Len(Agent(r).recipients)
  /\ calls' = [calls EXCEPT ![r] =
                 Append(@, [agent |-> ai[r], recipient |-> ri[r],
                            address |-> Recipient(r).to,
                            mail |-> Envelope(fromHeader[r], Agent(r), Recipient(r))])]
  /\ inFlight' = [inFlight EXCEPT ![r] = @ \cup {<<ai[r], ri[r]>>}]
  /\ pc' = [pc EXCEPT ![r] = "await"]
  /\ UNCHANGED <<json, env, script, outcomes, fromHeader, transport, dryRun,
                 ai, ri, sent, summary, settled, log, response>>
  /\ UNCHANGED <<clientVars, call>>

\* The transport's answer to the request's latest call is `ok`: the answer
\* its script already holds for a call of that number, or a new one.
Settles(r, ok) ==
  LET k == Len(calls[r])
      answers == outcomes[script[r]]
  IN  /\ IF k <= Len(answers)
         THEN answers[k] = ok /\ UNCHANGED outcomes
         ELSE outcomes' = [outcomes EXCEPT ![script[r]] = Append(@, ok)]
      /\ settled' = [settled EXCEPT ![r] = Append(@, ok)]

\* SendMailResolves counting a send only when it is live.
SendMailResolvesUncountedDryRun(r) ==
  /\ pc[r] = "await"
  /\ Settles(r, TRUE)
  /\ inFlight' = [inFlight EXCEPT ![r] = @ \ {<<ai[r], ri[r]>>}]
  /\ log' = [log EXCEPT ![r] =
               IF dryRun[r]
               THEN Append(@, [level |-> "info", agent |-> Agent(r).name,
                               to |-> Recipient(r).to,
                               subject |-> Recipient(r).subject,
                               preview |-> calls[r][Len(calls[r])].mail])
               ELSE @]
  /\ sent' = [sent EXCEPT ![r] = IF dryRun[r] THEN @ ELSE @ + 1]
  /\ ri' = [ri EXCEPT ![r] = @ + 1]
  /\ pc' = [pc EXCEPT ![r] = "loop"]
  /\ UNCHANGED <<json, env, script, fromHeader, transport, dryRun, ai,
                 summary, calls, response>>
  /\ UNCHANGED <<clientVars, call>>

\* The body of the try block after the await: the dry-run trace, sent += 1,
\* and the inner loop's step.
SendMailResolves(r) ==
  /\ pc[r] = "await"
  /\ Settles(r, TRUE)
  /\ inFlight' = [inFlight EXCEPT ![r] = @ \ {<<ai[r], ri[r]>>}]
  /\ log' = [log EXCEPT ![r] =
               IF dryRun[r]
               THEN Append(@, [level |-> "info", agent |-> Agent(r).name,
                               to |-> Recipient(r).to,
                               subject |-> Recipient(r).subject,
                               preview |-> calls[r][Len(calls[r])].mail])
               ELSE @]
  /\ sent' = [sent EXCEPT ![r] = @ + 1]
  /\ ri' = [ri EXCEPT ![r] = @ + 1]
  /\ pc' = [pc EXCEPT ![r] = "loop"]
  /\ UNCHANGED <<json, env, script, fromHeader, transport, dryRun, ai,
                 summary, calls, response>>
  /\ UNCHANGED <<clientVars, call>>

\* SendMailRejects swallowing the error: it is logged and the loop goes on
\* with the next recipient.
SendMailRejectsAndContinues(r) ==
  /\ pc[r] = "await"
  /\ Settles(r, FALSE)
  /\ inFlight' = [inFlight EXCEPT ![r] = @ \ {<<ai[r], ri[r]>>}]
  /\ log' = [log EXCEPT ![r] =
               Append(@, [level |-> "error", agent |-> Agent(r).id,
                          to |-> Recipient(r).to, subject |-> Undefined,
                          preview |-> Undefined])]
  /\ ri' = [ri EXCEPT ![r] = @ + 1]
  /\ pc' = [pc EXCEPT ![r] = "loop"]
  /\ UNCHANGED <<json, env, script, fromHeader, transport, dryRun, ai,
                 sent, summary, calls, response>>
  /\ UNCHANGED <<clientVars, call>>

\* The catch block: console.error and the 500 response, which ends POST.
SendMailRejects(r) ==
  /\ pc[r] = "await"
  /\ Settles(r, FALSE)
  /\ inFlight' = [inFlight EXCEPT ![r] = @ \ {<<ai[r], ri[r]>>}]
  /\ log' = [log EXCEPT ![r] =
               Append(@, [level |-> "error", agent |-> Agent(r).id,
                          to |-> Recipient(r).to, subject |-> Undefined,
                          preview |-> Undefined])]
  /\ response' = [response EXCEPT ![r] = SendFailureResponse(Recipient(r).to)]
  /\ pc' = [pc EXCEPT ![r] = "done"]
  /\ UNCHANGED <<json, env, script, fromHeader, transport, dryRun, ai, ri,
                 sent, summary, calls>>
  /\ UNCHANGED <<clientVars, call>>

\* PushSummary with `sent` declared outside the outer loop: the counter is
\* not set back for the next agent.
PushSummaryKeepingSent(r) ==
  /\ pc[r] = "loop"
  /\ ai[r] <= Len(Agents(r))
  /\ ri[r] > Len(Agent(r).recipients)
  /\ summary' = [summary EXCEPT ![r] = Append(@, [agentId |-> Agent(r).id, sent |-> sent[r]])]
  /\ ai' = [ai EXCEPT ![r] = @ + 1]
  /\ ri' = [ri EXCEPT ![r] = 1]
  /\ UNCHANGED <<json, env, script, outcomes, pc, fromHeader, transport,
                 dryRun, sent, inFlight, calls, settled, log, response>>
  /\ UNCHANGED <<clientVars, call>>

\* The inner loop is over: summary.push({ agentId: agent.id, sent }), and the
\* outer loop's step (let sent = 0 for the next agent).
PushSummary(r) ==
  /\ pc[r] = "loop"
  /\ ai[r] <= Len(Agents(r))
  /\ ri[r] > Len(Agent(r).recipients)
  /\ summary' = [summary EXCEPT ![r] = Append(@, [agentId |-> Agent(r).id, sent |-> sent[r]])]
  /\ ai' = [ai EXCEPT ![r] = @ + 1]
  /\ ri' = [ri EXCEPT ![r] = 1]
  /\ sent' = [sent EXCEPT ![r] = 0]
  /\ UNCHANGED <<json, env, script, outcomes, pc, fromHeader, transport,
                 dryRun, inFlight, calls, settled, log, response>>
  /\ UNCHANGED <<clientVars, call>>

\* Respond with `summary` declared outside POST: one array for every
\* request, so that the total and the agent count are those of all of them.
RespondOfSharedSummary(r) ==
  /\ pc[r] = "loop"
  /\ ai[r] > Len(Agents(r))
  /\ response' = [response EXCEPT ![r] =
                    SuccessResponse(dryRun[r],
                                    SumSent(Flatten([q \in 1..Cardinality(Reqs) |-> summary[q]])),
                                    Len(Flatten([q \in 1..Cardinality(Reqs) |-> summary[q]])))]
  /\ pc' = [pc EXCEPT ![r] = "done"]
  /\ UNCHANGED <<json, env, script, outcomes, fromHeader, transport, dryRun,
                 ai, ri, sent, summary, inFlight, calls, settled, log>>
  /\ UNCHANGED <<clientVars, call>>

\* The outer loop is over: the total and the success response.
Respond(r) ==
  /\ pc[r] = "loop"
  /\ ai[r] > Len(Agents(r))
  /\ response' = [response EXCEPT ![r] =
                    SuccessResponse(dryRun[r], SumSent(summary[r]), Len(summary[r]))]
  /\ pc' = [pc EXCEPT ![r] = "done"]
  /\ UNCHANGED <<json, env, script, outcomes, fromHeader, transport, dryRun,
                 ai, ri, sent, summary, inFlight, calls, settled, log>>
  /\ UNCHANGED <<clientVars, call>>

POST(r) ==
  \/ ParseBody(r)
  \/ Validate(r)
  \/ ResolveSender(r)
  \/ CreateTransport(r)
  \/ SendMail(r)
  \/ SendMailResolves(r)
  \/ SendMailRejects(r)
  \/ PushSummary(r)
  \/ Respond(r)


(***************************************************************************)
(* The page: src/app/page.tsx                                              *)
(*                                                                         *)
(* A DataRow is the sequence of its entries <<column, value>> in insertion *)
(* order (the order of Object.entries), with no column twice.              *)
(***************************************************************************)
LowerOf(c) ==
  CASE c = "A" -> "a" [] c = "B" -> "b" [] c = "C" -> "c" [] c = "D" -> "d"
    [] c = "E" -> "e" [] c = "F" -> "f" [] c = "G" -> "g" [] c = "H" -> "h"
    [] c = "I" -> "i" [] c = "J" -> "j" [] c = "K" -> "k" [] c = "L" -> "l"
    [] c = "M" -> "m" [] c = "N" -> "n" [] c = "O" -> "o" [] c = "P" -> "p"
    [] c = "Q" -> "q" [] c = "R" -> "r" [] c = "S" -> "s" [] c = "T" -> "t"
    [] c = "U" -> "u" [] c = "V" -> "v" [] c = "W" -> "w" [] c = "X" -> "x"
    [] c = "Y" -> "y" [] c = "Z" -> "z"
    [] OTHER -> c

\* String.prototype.toLowerCase
ToLower(s) == [i \in 1..Len(s) |-> LowerOf(s[i])]

RECURSIVE TrimStart(_)
TrimStart(s) ==
  IF s # <<>> /\ Head(s) \in Whitespace THEN TrimStart(Tail(s)) ELSE s

RECURSIVE TrimEnd(_)
TrimEnd(s) ==
  IF s # <<>> /\ s[Len(s)] \in Whitespace
  THEN TrimEnd(SubSeq(s, 1, Len(s) - 1)) ELSE s

\* String.prototype.trim
Trim(s) == TrimEnd(TrimStart(s))

\* String.prototype.startsWith, endsWith and includes
StartsWith(s, t) == Len(t) <= Len(s) /\ SubSeq(s, 1, Len(t)) = t

EndsWith(s, t) == Len(t) <= Len(s) /\ SubSeq(s, Len(s) - Len(t) + 1, Len(s)) = t

Includes(s, t) ==
  \E i \in 1..(Len(s) - Len(t) + 1) : SubSeq(s, i, i + Len(t) - 1) = t

normalizeValue(value) ==
  IF value = Undefined \/ value = Null THEN <<>> ELSE Trim(value)

\* Members every object inherits from Object.prototype; read as a property
\* they are functions, which `${...}` and String.replace write as text.
ObjectPrototypeKeys ==
  {<<"c", "o", "n", "s", "t", "r", "u", "c", "t", "o", "r">>,
   <<"t", "o", "S", "t", "r", "i", "n", "g">>}

NativeFunctionText == <<"function () { [native code] }">>

\* The own entry of a row for a key: its value, or Undefined.
OwnGet(row, key) ==
  IF \E i \in 1..Len(row) : row[i][1] = key
  THEN row[CHOOSE i \in 1..Len(row) : row[i][1] = key][2]
  ELSE Undefined

\* row[key]
RowGet(row, key) ==
  IF OwnGet(row, key) # Undefined THEN OwnGet(row, key)
  ELSE IF key \in ObjectPrototypeKeys THEN NativeFunctionText
  ELSE Undefined

\* loweredMap.get(key): the map is built from the entries in order, a later
\* entry of the same trimmed lower-cased name replacing an earlier one.
LoweredGet(row, key) ==
  LET hits == {i \in 1..Len(row) : ToLower(Trim(row[i][1])) = key}
  IN  IF hits = {} THEN Undefined
      ELSE row[CHOOSE i \in hits : \A j \in hits : j <= i][2]

\* The match of /{{\s*([^}]+)\s*}}/ that starts at place i of the template:
\* the place of its last brace, 0 when there is no match at i.  Between the
\* opening braces and the first closing brace at least one character must
\* stand, and a second closing brace must follow the first.
TokenEnd(t, i) ==
  IF i + 1 <= Len(t) /\ t[i] = "{" /\ t[i + 1] = "{"
  THEN LET closers == {j \in (i + 2)..Len(t) : t[j] = "}"}
           j == IF closers = {} THEN 0
                ELSE CHOOSE c \in closers : \A d \in closers : c <= d
       IN  IF j > i + 2 /\ j + 1 <= Len(t) /\ t[j + 1] = "}"
           THEN j + 1 ELSE 0
  ELSE 0

\* The replacement of the token that ends at place e: rawKey.trim() read
\* from the row, then from the lowered map, then the empty text.
TokenValue(t, i, e, row) ==
  LET key == Trim(SubSeq(t, i + 2, e - 2))
      direct == RowGet(row, key)
      fallback == LoweredGet(row, ToLower(key))
  IN  IF direct # Undefined THEN direct
      ELSE IF fallback # Undefined THEN fallback ELSE <<>>

RECURSIVE RenderFrom(_, _, _)
\* template.replace(..., callback) from place i on: one pass from left to
\* right, a replacement is not scanned again.
RenderFrom(t, i, row) ==
  LET starts == {j \in i..Len(t) : TokenEnd(t, j) # 0}
      first == CHOOSE j \in starts : \A k \in starts : j <= k
  IN  IF starts = {} THEN SubSeq(t, i, Len(t))
      ELSE SubSeq(t, i, first - 1)
             \o TokenValue(t, first, TokenEnd(t, first), row)
             \o RenderFrom(t, TokenEnd(t, first) + 1, row)

\* renderTemplate rendering what it rendered once more, so that placeholder
\* text a cell brought in is expanded too.
renderTemplateExpanding(template, row) ==
  RenderFrom(RenderFrom(template, 1, row), 1, row)

renderTemplate(template, row) == RenderFrom(template, 1, row)

NoFilter == [present |-> FALSE, column |-> <<>>, operator |-> "equals", value |-> <<>>]

applyFilter(row, filter) ==
  IF ~filter.present \/ ~Truthy(filter.column) \/ ~Truthy(filter.value)
  THEN TRUE
  ELSE LET targetValue == IF RowGet(row, filter.column) = Undefined THEN <<>>
                          ELSE RowGet(row, filter.column)
           needle == ToLower(filter.value)
           haystack == ToLower(targetValue)
       IN  CASE filter.operator = "equals" -> haystack = needle
             [] filter.operator = "contains" -> Includes(haystack, needle)
             [] filter.operator = "startsWith" -> StartsWith(haystack, needle)
             [] filter.operator = "endsWith" -> EndsWith(haystack, needle)
             [] OTHER -> TRUE

NoUpload == [loaded |-> FALSE, fileName |-> <<>>, columns |-> <<>>, rows |-> <<>>]

RECURSIVE Distinct(_)
\* Array.from(new Set(list)): the first occurrence of each element, in order.
Distinct(list) ==
  IF list = <<>> THEN <<>>
  ELSE LET init == Distinct(SubSeq(list, 1, Len(list) - 1))
           last == list[Len(list)]
       IN  IF \E i \in 1..Len(init) : init[i] = last THEN init
           ELSE Append(init, last)

\* The columns of handleUpload: the trimmed keys of every row of the sheet.
UploadColumns(sheet) ==
  Distinct(Flatten([i \in 1..Len(sheet) |->
                      [k \in 1..Len(sheet[i]) |-> Trim(sheet[i][k][1])]]))

\* The rows of handleUpload: per column, row[column] ?? row[column.trim()]
\* of the sheet's row, normalized.
UploadRows(sheet, columns) ==
  [i \in 1..Len(sheet) |->
     [c \in 1..Len(columns) |->
        <<columns[c],
          normalizeValue(IF OwnGet(sheet[i], columns[c]) # Undefined
                         THEN OwnGet(sheet[i], columns[c])
                         ELSE OwnGet(sheet[i], Trim(columns[c])))>>]]

\* columns.find((column) => column.toLowerCase().includes(word)) ?? ""
FindColumn(columns, word) ==
  LET hits == {i \in 1..Len(columns) : Includes(ToLower(columns[i]), word)}
  IN  IF hits = {} THEN <<>>
      ELSE columns[CHOOSE i \in hits : \A j \in hits : i <= j]

\* setUploadResult's argument for a sheet that has rows.
UploadResultOf(fileName, sheet) ==
  [loaded |-> TRUE, fileName |-> fileName, columns |-> UploadColumns(sheet),
   rows |-> UploadRows(sheet, UploadColumns(sheet))]

\* The null that handleSend maps a row without an e-mail to.
NullRecipient == [to |-> Null, subject |-> Null, body |-> Null,
                  variables |-> <<>>, name |-> Null]

\* ResolveRecipients keeping a row whose e-mail is empty.
ResolveRecipientsKeepingEmpty(agent, rows, emailCol, nameCol) ==
  LET matching == SelectSeq(rows, LAMBDA row : applyFilter(row, agent.filter))
  IN  [k \in 1..Len(matching) |->
         [to |-> normalizeValue(RowGet(matching[k], emailCol)),
          subject |-> renderTemplate(agent.subjectTemplate, matching[k]),
          body |-> renderTemplate(agent.bodyTemplate, matching[k]),
          variables |-> matching[k],
          name |-> IF Truthy(nameCol) THEN RowGet(matching[k], nameCol) ELSE Undefined]]

\* The recipients handleSend resolves for one agent: the rows that pass the
\* agent's filter, each mapped to a recipient or to null when its e-mail is
\* empty, the nulls dropped.
ResolveRecipients(agent, rows, emailCol, nameCol) ==
  LET matching == SelectSeq(rows, LAMBDA row : applyFilter(row, agent.filter))
      mapped == [k \in 1..Len(matching) |->
                   IF ~Truthy(normalizeValue(RowGet(matching[k], emailCol)))
                   THEN NullRecipient
                   ELSE [to |-> normalizeValue(RowGet(matching[k], emailCol)),
                         subject |-> renderTemplate(agent.subjectTemplate, matching[k]),
                         body |-> renderTemplate(agent.bodyTemplate, matching[k]),
                         variables |-> matching[k],
                         name |-> IF Truthy(nameCol) THEN RowGet(matching[k], nameCol)
                                  ELSE Undefined]]
  IN  SelectSeq(mapped, LAMBDA value : value # NullRecipient)

\* PreparedAgents without the filter on agent.recipients.length.
PreparedAgentsKeepingEmpty(ags, rows, emailCol, nameCol) ==
  [a \in 1..Len(ags) |->
     [id |-> ags[a].id, name |-> ags[a].name,
      recipients |-> ResolveRecipients(ags[a], rows, emailCol, nameCol)]]

\* preparedAgents of handleSend.
PreparedAgents(ags, rows, emailCol, nameCol) ==
  SelectSeq([a \in 1..Len(ags) |->
               [id |-> ags[a].id, name |-> ags[a].name,
                recipients |-> ResolveRecipients(ags[a], rows, emailCol, nameCol)]],
            LAMBDA agent : Len(agent.recipients) # 0)

\* totalRecipients adding up the agents' matching rows that have an e-mail,
\* an address counted once per agent and row.
totalRecipientsSummed ==
  IF ~uploadResult.loaded \/ ~Truthy(emailColumn) THEN 0
  ELSE Cardinality(
         {p \in (1..Len(agents)) \X (1..Len(uploadResult.rows)) :
            /\ applyFilter(uploadResult.rows[p[2]], agents[p[1]].filter)
            /\ normalizeValue(RowGet(uploadResult.rows[p[2]], emailColumn)) # <<>>})

\* totalRecipients: the size of the set of the e-mails of every agent's
\* matching rows.
totalRecipients ==
  IF ~uploadResult.loaded \/ ~Truthy(emailColumn) THEN 0
  ELSE Cardinality(
         {normalizeValue(RowGet(uploadResult.rows[i], emailColumn)) :
            <<a, i>> \in {p \in (1..Len(agents)) \X (1..Len(uploadResult.rows)) :
                           applyFilter(uploadResult.rows[p[2]], agents[p[1]].filter)}}
           \ {<<>>})

\* SendButtonDisabled without the count: disabled={sending}.
SendButtonDisabledWhileSending == sending

\* disabled={sending || !totalRecipients} of the Send campaign button.
SendButtonDisabled == sending \/ totalRecipients = 0

NoResult == [set |-> FALSE, ok |-> FALSE, message |-> "none", payload |-> NoResponse]

SelectColumnResult ==
  [set |-> TRUE, ok |-> FALSE,
   message |-> "Please select which column contains email addresses.",
   payload |-> NoResponse]

NoRecipientsResult ==
  [set |-> TRUE, ok |-> FALSE,
   message |-> "No recipients were identified. Adjust your filters or verify the email column.",
   payload |-> NoResponse]

UnexpectedErrorResult ==
  [set |-> TRUE, ok |-> FALSE,
   message |-> "An unexpected error occurred while sending emails. Check server logs for details.",
   payload |-> NoResponse]

\* fetch("/api/send", { method: "POST", body: JSON.stringify(body) }): the
\* endpoint is entered with the body, as request 1.
Fetch(body) ==
  /\ pc[1] = "idle"
  /\ json' = [json EXCEPT ![1] = body]
  /\ pc' = [pc EXCEPT ![1] = "received"]
  /\ UNCHANGED <<env, script, outcomes, fromHeader, transport, dryRun, ai, ri,
                 sent, summary, inFlight, calls, settled, log, response>>

\* handleSend up to its await of fetch.  The handler is an operation of its
\* own here: the Send campaign button that calls it is SendButtonDisabled.
handleSend ==
  /\ ~sending
  /\ pc[1] = "idle"
  /\ IF ~uploadResult.loaded
     THEN UNCHANGED <<serverVars, sending, sendResult>>
     ELSE IF ~Truthy(emailColumn)
     THEN /\ sendResult' = SelectColumnResult
          /\ UNCHANGED <<serverVars, sending>>
     ELSE IF Len(PreparedAgents(agents, uploadResult.rows, emailColumn, nameColumn)) = 0
     THEN /\ sendResult' = NoRecipientsResult
          /\ UNCHANGED <<serverVars, sending>>
     ELSE /\ sending' = TRUE
          /\ sendResult' = NoResult
          /\ Fetch(Body(PreparedAgents(agents, uploadResult.rows, emailColumn, nameColumn),
                        [present |-> TRUE, email |-> fromEmail, name |-> fromName]))
  /\ UNCHANGED <<uploadResult, emailColumn, nameColumn, agents, fromEmail,
                 fromName, reading, uuids, call>>

\* The fetch resolves with the endpoint's response: setSendResult of its ok
\* and message, and the finally block.
FetchResolves ==
  /\ sending
  /\ pc[1] = "done"
  /\ sendResult' = [set |-> TRUE, ok |-> response[1].ok,
                    message |-> response[1].template, payload |-> response[1]]
  /\ sending' = FALSE
  /\ UNCHANGED <<serverVars, uploadResult, emailColumn, nameColumn, agents,
                 fromEmail, fromName, reading, uuids, call>>

\* The fetch rejects (the network fails): the catch and the finally block.
FetchRejects ==
  /\ sending
  /\ sendResult' = UnexpectedErrorResult
  /\ sending' = FALSE
  /\ UNCHANGED <<serverVars, uploadResult, emailColumn, nameColumn, agents,
                 fromEmail, fromName, reading, uuids, call>>

\* applyFilter throws a TypeError where targetValue is not a string: the
\* row has no own entry for the filter's column and row[filter.column] is a
\* member inherited from Object.prototype, which has no toLowerCase.
applyFilterThrows(row, filter) ==
  /\ filter.present /\ Truthy(filter.column) /\ Truthy(filter.value)
  /\ OwnGet(row, filter.column) = Undefined
  /\ filter.column \in ObjectPrototypeKeys

\* No call of a pure function has been made.
NoCall == [fn |-> "none", row |-> <<>>, filter |-> NoFilter, template |-> <<>>,
           results |-> <<>>, threw |-> FALSE]

\* A call of applyFilter(row, filter) that has not been made yet.
FilterCall(row, filter) ==
  [fn |-> "applyFilter", row |-> row, filter |-> filter, template |-> <<>>,
   results |-> <<>>, threw |-> FALSE]

\* A call of renderTemplate(template, row) that has not been made yet.
RenderCall(template, row) ==
  [fn |-> "renderTemplate", row |-> row, filter |-> NoFilter,
   template |-> template, results |-> <<>>, threw |-> FALSE]

\* applyFilter(row, filter) is called and returns or throws.
CallApplyFilter ==
  /\ call.fn = "applyFilter"
  /\ ~call.threw
  /\ Len(call.results) < MaxCalls
  /\ call' = IF applyFilterThrows(call.row, call.filter)
             THEN [call EXCEPT !.threw = TRUE]
             ELSE [call EXCEPT !.results = Append(@, applyFilter(call.row, call.filter))]
  /\ UNCHANGED <<serverVars, clientVars>>

\* renderTemplate(template, row) is called and returns.
CallRenderTemplate ==
  /\ call.fn = "renderTemplate"
  /\ Len(call.results) < MaxCalls
  /\ call' = [call EXCEPT !.results = Append(@, renderTemplate(call.template, call.row))]
  /\ UNCHANGED <<serverVars, clientVars>>

\* The page as constructed: the initial values of its useState calls.
Constructed ==
  /\ uploadResult = NoUpload
  /\ emailColumn = <<>>
  /\ nameColumn = <<>>
  /\ agents = <<>>
  /\ sending = FALSE
  /\ sendResult = NoResult
  /\ fromEmail = <<>>
  /\ fromName = <<>>
  /\ reading = {}
  /\ uuids = 0

(***************************************************************************)
(* The requests and configurations the endpoint is checked on.             *)
(***************************************************************************)
AnnEmail == <<"a", "n", "n", "@", "x", ".", "i", "o">>
BobEmail == <<"b", "o", "b", "@", "x", ".", "i", "o">>
OpsEmail == <<"o", "p", "s", "@", "x", ".", "i", "o">>
MailFromEmail == <<"m", "a", "i", "l", "@", "x", ".", "i", "o">>
SmtpFromEmail == <<"s", "m", "t", "p", "@", "x", ".", "i", "o">>
SmtpUserEmail == <<"u", "s", "e", "r", "@", "x", ".", "i", "o">>
NotAnEmail == <<"a", "n", "n", "@", "x">>
SmtpHostName == <<"s", "m", "t", "p", ".", "x", ".", "i", "o">>

\* The recipient at place r of agent a: two addresses in turn, every other
\* recipient named, a body with characters buildHtmlBody escapes.
SampleRecipient(a, r) ==
  [to |-> IF (a + r) % 2 = 0 THEN AnnEmail ELSE BobEmail,
   subject |-> <<"H", "i">>,
   body |-> <<"a", "<", "b", "\n", "&", "c">>,
   variables |-> Undefined,
   name |-> IF r % 2 = 1 THEN <<"A", "n", "n">> ELSE Undefined]

\* One structural defect: the field of one recipient set to a value.
NoDefect == [agent |-> 0, recipient |-> 0, field |-> "none", value |-> Undefined]

DefectValues ==
  {<<"to", NotAnEmail>>, <<"to", <<>>>>, <<"subject", <<>>>>, <<"body", <<>>>>}

Defects(shape) ==
  {NoDefect} \cup
  {[agent |-> a, recipient |-> r, field |-> fv[1], value |-> fv[2]] :
     <<a, r, fv>> \in {t \in (1..Len(shape)) \X (1..MaxRecipients) \X DefectValues :
                         t[2] <= shape[t[1]]}}

DefectiveRecipient(a, r, d) ==
  LET rc == SampleRecipient(a, r)
  IN  IF d.agent = a /\ d.recipient = r
      THEN [rc EXCEPT ![d.field] = d.value]
      ELSE rc

\* The agents of a request: shape[a] recipients for agent a; the second
\* agent has an empty name.
SampleAgents(shape, d) ==
  [a \in 1..Len(shape) |->
     [id |-> <<"i", "d", IF a = 1 THEN "1" ELSE IF a = 2 THEN "2" ELSE "3">>,
      name |-> IF a = 2 THEN <<>> ELSE <<"A", "g", "e", "n", "t">>,
      recipients |-> [r \in 1..shape[a] |-> DefectiveRecipient(a, r, d)]]]

Shapes == UNION {[1..n -> 0..MaxRecipients] : n \in 0..MaxAgents}

\* Every from object: each field absent, empty, or set; the e-mail also
\* malformed.
Froms ==
  {NoFrom} \cup
  [present : {TRUE},
   email : {Undefined, <<>>, NotAnEmail, OpsEmail},
   name : {Undefined, <<>>, <<"O", "p", "s">>}]

FewFroms ==
  {NoFrom,
   [present |-> TRUE, email |-> OpsEmail, name |-> <<"O", "p", "s">>],
   [present |-> TRUE, email |-> Undefined, name |-> Undefined]}

UnsetEnv ==
  [SMTP_HOST |-> Undefined, SMTP_PORT |-> Undefined, SMTP_SECURE |-> Undefined,
   SMTP_USER |-> Undefined, SMTP_PASS |-> Undefined, MAIL_FROM |-> Undefined,
   SMTP_FROM |-> Undefined, MAIL_FROM_NAME |-> Undefined,
   SMTP_FROM_NAME |-> Undefined]

\* Every configuration: each variable unset or set, the host also empty.
Envs ==
  [SMTP_HOST : {Undefined, <<>>, SmtpHostName},
   SMTP_PORT : {Undefined, <<"4", "6", "5">>},
   SMTP_SECURE : {Undefined, <<"t", "r", "u", "e">>},
   SMTP_USER : {Undefined, SmtpUserEmail},
   SMTP_PASS : {Undefined, <<"p", "w">>},
   MAIL_FROM : {Undefined, MailFromEmail},
   SMTP_FROM : {Undefined, SmtpFromEmail},
   MAIL_FROM_NAME : {Undefined, <<"M", "a", "i", "l">>},
   SMTP_FROM_NAME : {Undefined, <<"S", "m", "t", "p">>}]

FewEnvs ==
  {UnsetEnv,
   [UnsetEnv EXCEPT !.MAIL_FROM = MailFromEmail],
   [UnsetEnv EXCEPT !.SMTP_HOST = SmtpHostName, !.MAIL_FROM = MailFromEmail],
   [UnsetEnv EXCEPT !.SMTP_HOST = SmtpHostName, !.SMTP_USER = SmtpUserEmail,
                    !.SMTP_PASS = <<"p", "w">>]}

\* Requests of every shape, with at most one defect, under a few senders and
\* configurations.
ShapedBodies ==
  {MalformedBody} \cup
  {Body(SampleAgents(sd[1], sd[2]), f) :
     sd \in {t \in Shapes \X UNION {Defects(sh) : sh \in Shapes} :
               t[2] \in Defects(t[1])},
     f \in FewFroms}

\* One well-formed request of two agents, under every sender.
SenderBodies ==
  {Body(SampleAgents(<<1, 1>>, NoDefect), f) : f \in Froms}

\* The state of a request's handler when POST is entered.
Entered ==
  /\ fromHeader = [r \in Reqs |-> Undefined]
  /\ transport = [r \in Reqs |-> NoTransport]
  /\ dryRun = [r \in Reqs |-> FALSE]
  /\ ai = [r \in Reqs |-> 0]
  /\ ri = [r \in Reqs |-> 0]
  /\ sent = [r \in Reqs |-> 0]
  /\ summary = [r \in Reqs |-> <<>>]
  /\ inFlight = [r \in Reqs |-> {}]
  /\ calls = [r \in Reqs |-> <<>>]
  /\ settled = [r \in Reqs |-> <<>>]
  /\ log = [r \in Reqs |-> <<>>]
  /\ response = [r \in Reqs |-> NoResponse]
  /\ outcomes = [s \in Scripts |-> <<>>]

\* One request is handled: `bodies` are the requests it may be, `envs` the
\* configurations of the server.
OneRequest(bodies, envs) ==
  \E b \in bodies, e \in envs :
    /\ json = [r \in Reqs |-> IF r = 1 THEN b ELSE MalformedBody]
    /\ env = [r \in Reqs |-> IF r = 1 THEN e ELSE UnsetEnv]

\* One request: of any shape under a few configurations, or of one shape
\* under every configuration and sender.
Init ==
  /\ Entered
  /\ Constructed
  /\ \/ OneRequest(ShapedBodies, FewEnvs)
     \/ OneRequest(SenderBodies, Envs)
  /\ pc = [r \in Reqs |-> IF r = 1 THEN "received" ELSE "idle"]
  /\ script = [r \in Reqs |-> r]
  /\ call = NoCall

Next == \E r \in Reqs : POST(r)

Spec == Init /\ [][Next]_vars


(***************************************************************************)
(* Two requests with the same body, answered by the same transport script: *)
(* request 1 on a server without a mail host, request 2 on a server with   *)
(* one and otherwise the same configuration.                               *)
(***************************************************************************)
InitDryLive ==
  /\ Entered
  /\ Constructed
  /\ \E b \in ShapedBodies, e \in FewEnvs :
       /\ json = [r \in Reqs |-> IF r \in {1, 2} THEN b ELSE MalformedBody]
       /\ env = [r \in Reqs |-> IF r = 1
                                THEN [e EXCEPT !.SMTP_HOST = Undefined]
                                ELSE [e EXCEPT !.SMTP_HOST = SmtpHostName]]
  /\ pc = [r \in Reqs |-> IF r \in {1, 2} THEN "received" ELSE "idle"]
  /\ script = [r \in Reqs |-> 1]
  /\ call = NoCall

SpecDryLive == InitDryLive /\ [][Next]_vars

(***************************************************************************)
(* The page with a spreadsheet loaded and its agents set up, about to      *)
(* send: the sheets, columns, agents and sender it is checked on.          *)
(***************************************************************************)
\* Most rows of a sheet.
MaxRows == 3
\* Most agents of the page.
MaxPageAgents == 2

EmailHeader == <<"E", "m", "a", "i", "l">>
NameHeader == <<"N", "a", "m", "e">>
PlanHeader == <<"P", "l", "a", "n">>

SheetRow(email, name, plan) ==
  <<<<EmailHeader, email>>, <<NameHeader, name>>, <<PlanHeader, plan>>>>

\* The rows sheets are cut from, as sheet_to_json gives them: an e-mail of
\* blanks, an e-mail in blanks, an address twice, plans in either case.
RowPool ==
  <<SheetRow(AnnEmail, <<"A", "n", "n">>, <<"P", "r", "o">>),
    SheetRow(<<" ", " ">>, <<"B", "o", "b">>, <<"p", "r", "o", " ">>),
    SheetRow(AnnEmail, <<"A", "n">>, <<>>),
    SheetRow(<<" ">> \o BobEmail \o <<" ">>, <<>>, <<"x">>)>>

\* Every run of at most MaxRows rows of the pool, with at least one row.
Sheets ==
  {SubSeq(RowPool, i, j) :
     <<i, j>> \in {p \in (1..Len(RowPool)) \X (1..Len(RowPool)) :
                    p[1] <= p[2] /\ p[2] - p[1] < MaxRows}}

FilterOn(column, operator, value) ==
  [present |-> TRUE, column |-> column, operator |-> operator, value |-> value]

\* The agents of the page, but for their ids: no filter, a filter on the
\* plan, a filter no row passes, a filter with a column and no value.
AgentSetups ==
  {[name |-> <<"A", "l", "l">>, filter |-> NoFilter,
    subjectTemplate |-> <<"H", "i", " ", "{", "{", "N", "a", "m", "e", "}", "}">>,
    bodyTemplate |-> <<"x">>],
   [name |-> <<"P", "r", "o">>, filter |-> FilterOn(PlanHeader, "equals", <<"P", "R", "O">>),
    subjectTemplate |-> <<"H", "i", " ", "{", "{", " ", "n", "a", "m", "e", " ", "}", "}">>,
    bodyTemplate |-> <<"{", "{", "P", "l", "a", "n", "}", "}">>],
   [name |-> <<>>, filter |-> FilterOn(PlanHeader, "contains", <<"y">>),
    subjectTemplate |-> <<"s">>, bodyTemplate |-> <<"b">>],
   [name |-> <<"X">>, filter |-> FilterOn(EmailHeader, "startsWith", <<>>),
    subjectTemplate |-> <<"s">>, bodyTemplate |-> <<"{", "{", "}", "}">>]}

\* The agent lists of the page: one to MaxPageAgents setups, each under the
\* id of its place (uuid() gives every agent an id of its own).
AgentLists ==
  UNION {{[a \in 1..n |->
             [id |-> <<"u", IF a = 1 THEN "1" ELSE IF a = 2 THEN "2" ELSE "3">>,
              name |-> setups[a].name,
              subjectTemplate |-> setups[a].subjectTemplate,
              bodyTemplate |-> setups[a].bodyTemplate,
              filter |-> setups[a].filter]] :
            setups \in [1..n -> AgentSetups]} : n \in 1..MaxPageAgents}

\* The server the page talks to: a dry run with a default sender.
PageEnv == [UnsetEnv EXCEPT !.MAIL_FROM = MailFromEmail]

\* The page either as constructed, or with a sheet loaded by handleUpload,
\* the column selects on one of their options, the sender inputs filled or
\* empty, and agents set up; the endpoint has no request yet.
InitSend ==
  /\ Entered
  /\ json = [r \in Reqs |-> MalformedBody]
  /\ env = [r \in Reqs |-> IF r = 1 THEN PageEnv ELSE UnsetEnv]
  /\ pc = [r \in Reqs |-> "idle"]
  /\ script = [r \in Reqs |-> r]
  /\ sending = FALSE
  /\ sendResult = NoResult
  /\ call = NoCall
  /\ \/ Constructed
     \/ /\ \E sheet \in Sheets : uploadResult = UploadResultOf(<<"f">>, sheet)
        /\ emailColumn \in {<<>>, EmailHeader, PlanHeader}
        /\ nameColumn \in {<<>>, NameHeader}
        /\ fromEmail \in {<<>>, OpsEmail}
        /\ fromName \in {<<>>}
        /\ agents \in AgentLists
        /\ reading = {}
        /\ uuids = Len(agents)

NextSend ==
  \/ handleSend
  \/ FetchResolves
  \/ FetchRejects
  \/ POST(1)

SpecSend == InitSend /\ [][NextSend]_vars

(***************************************************************************)
(* The page's other operations: upload, reset, the e-mail column select,   *)
(* the agent controls and the Send campaign button.                        *)
(***************************************************************************)
\* Most ids uuid() gives out.
MaxUuids == 2
\* Most files handleUpload is reading at a time.
MaxReading == 1

DEFAULT_SUBJECT == <<"H", "e", "l", "l", "o", " ", "{", "{", "N", "a", "m", "e", "}", "}">>

DEFAULT_BODY ==
  <<"H", "i", " ", "{", "{", "N", "a", "m", "e", "}", "}", ",", "\n", "\n",
    "I", " ", "h", "o", "p", "e", " ", "t", "h", "i", "s", " ", "m", "e",
    "s", "s", "a", "g", "e", " ", "f", "i", "n", "d", "s", " ", "y", "o",
    "u", " ", "w", "e", "l", "l", ".", " ", "W", "e", " ", "w", "a", "n",
    "t", "e", "d", " ", "t", "o", " ", "r", "e", "a", "c", "h", " ", "o",
    "u", "t", " ", "a", "b", "o", "u", "t", " ", "{", "{", "T", "o", "p",
    "i", "c", "}", "}", ".", "\n", "\n", "T", "h", "a", "n", "k", "s", ",",
    "\n", "{", "{", "A", "c", "c", "o", "u", "n", "t", " ", "M", "a", "n",
    "a", "g", "e", "r", "}", "}">>

DigitChar(n) == <<"0", "1", "2", "3", "4", "5", "6", "7", "8", "9">>[n + 1]

\* The n-th id uuid() gives out: no two calls give the same id.
Uuid(n) == <<"u", DigitChar(n)>>

\* A file the operator picks: its name and the rows sheet_to_json gives for
\* its first sheet.
File(name, sheet) == [name |-> name, sheet |-> sheet]

\* The files the operator has: a sheet of one row, a sheet of two rows of
\* which one has no e-mail, a sheet without rows.
PageFiles ==
  {File(<<"a">>, <<RowPool[1]>>),
   File(<<"b">>, <<RowPool[2], RowPool[4]>>),
   File(<<"c">>, <<>>)}

\* handleUpload up to `await file.arrayBuffer()`.
handleUpload(file) ==
  /\ file \notin reading
  /\ Cardinality(reading) < MaxReading
  /\ sendResult' = NoResult
  /\ reading' = reading \cup {file}
  /\ UNCHANGED <<serverVars, uploadResult, emailColumn, nameColumn, agents,
                 sending, fromEmail, fromName, uuids, call>>

\* handleUpload after the await, the sheet with rows: the upload result, the
\* default columns and one agent.
UploadSucceeds(file) ==
  /\ file \in reading
  /\ file.sheet # <<>>
  /\ uuids < MaxUuids
  /\ reading' = reading \ {file}
  /\ uploadResult' = UploadResultOf(file.name, file.sheet)
  /\ emailColumn' = FindColumn(UploadColumns(file.sheet), <<"e", "m", "a", "i", "l">>)
  /\ nameColumn' = FindColumn(UploadColumns(file.sheet), <<"n", "a", "m", "e">>)
  /\ agents' = <<[id |-> Uuid(uuids + 1),
                  name |-> <<"G", "e", "n", "e", "r", "a", "l", " ", "O", "u", "t", "r", "e", "a", "c", "h">>,
                  subjectTemplate |-> DEFAULT_SUBJECT,
                  bodyTemplate |-> DEFAULT_BODY,
                  filter |-> NoFilter]>>
  /\ uuids' = uuids + 1
  /\ UNCHANGED <<serverVars, sending, sendResult, fromEmail, fromName, call>>

\* The result handleUpload's catch block sets for a sheet without rows.
UploadErrorResult ==
  [set |-> TRUE, ok |-> FALSE,
   message |-> "No data detected in the first sheet.",
   payload |-> NoResponse]

\* handleUpload after the await, the sheet without rows: the error thrown
\* and the catch block.
UploadFails(file) ==
  /\ file \in reading
  /\ file.sheet = <<>>
  /\ reading' = reading \ {file}
  /\ sendResult' = UploadErrorResult
  /\ UNCHANGED <<serverVars, uploadResult, emailColumn, nameColumn, agents,
                 sending, fromEmail, fromName, uuids, call>>

\* The Reset wizard button, shown when a sheet is loaded.
handleReset ==
  /\ uploadResult.loaded
  /\ uploadResult' = NoUpload
  /\ emailColumn' = <<>>
  /\ nameColumn' = <<>>
  /\ agents' = <<>>
  /\ sendResult' = NoResult
  /\ UNCHANGED <<serverVars, sending, fromEmail, fromName, reading, uuids, call>>

\* The options of a column select: none, and the sheet's columns.
ColumnOptions == {<<>>} \cup {uploadResult.columns[c] : c \in 1..Len(uploadResult.columns)}

\* The Email column select.
setEmailColumn(value) ==
  /\ uploadResult.loaded
  /\ value \in ColumnOptions
  /\ emailColumn' = value
  /\ UNCHANGED <<serverVars, uploadResult, nameColumn, agents, sending,
                 sendResult, fromEmail, fromName, reading, uuids, call>>

\* A Partial<AgentDefinition>: the fields it has, and their values.
FilterPatch(filter) ==
  [has |-> {"filter"}, name |-> <<>>, filter |-> filter]

\* { ...agent, ...patch }
Patched(agent, patch) ==
  [id |-> agent.id,
   name |-> IF "name" \in patch.has THEN patch.name ELSE agent.name,
   subjectTemplate |-> agent.subjectTemplate,
   bodyTemplate |-> agent.bodyTemplate,
   filter |-> IF "filter" \in patch.has THEN patch.filter ELSE agent.filter]

\* The patches an agent's controls call handleAgentChange with, of those the
\* filter's: the column select, which keeps the filter's operator and value
\* or sets "equals" and ""; and, enabled once the filter has a column, the
\* value input.
AgentPatches(agent) ==
  {FilterPatch(FilterOn(column,
                        IF agent.filter.present THEN agent.filter.operator ELSE "equals",
                        IF agent.filter.present THEN agent.filter.value ELSE <<>>)) :
     column \in {PlanHeader} \cap ColumnOptions} \cup
  (IF agent.filter.present /\ Truthy(agent.filter.column)
   THEN {FilterPatch(FilterOn(agent.filter.column, agent.filter.operator, <<"p", "r", "o">>))}
   ELSE {})

handleAgentChange(id, patch) ==
  /\ agents' = [a \in 1..Len(agents) |->
                  IF agents[a].id = id THEN Patched(agents[a], patch) ELSE agents[a]]
  /\ UNCHANGED <<serverVars, uploadResult, emailColumn, nameColumn, sending,
                 sendResult, fromEmail, fromName, reading, uuids, call>>

\* The Add agent button.
handleCreateAgent ==
  /\ uploadResult.loaded
  /\ Len(agents) < MaxPageAgents
  /\ uuids < MaxUuids
  /\ agents' = Append(agents,
                      [id |-> Uuid(uuids + 1),
                       name |-> <<"A", "g", "e", "n", "t", " ">> \o <<DigitChar(Len(agents) + 1)>>,
                       subjectTemplate |-> DEFAULT_SUBJECT,
                       bodyTemplate |-> DEFAULT_BODY,
                       filter |-> NoFilter])
  /\ uuids' = uuids + 1
  /\ UNCHANGED <<serverVars, uploadResult, emailColumn, nameColumn, sending,
                 sendResult, fromEmail, fromName, reading, call>>

\* handleDuplicateAgent keeping the id of the agent it copies.
handleDuplicateAgentKeepingId(id) ==
  /\ \E a \in 1..Len(agents) : agents[a].id = id
  /\ Len(agents) < MaxPageAgents
  /\ uuids < MaxUuids
  /\ LET agent == agents[CHOOSE a \in 1..Len(agents) : agents[a].id = id]
     IN  agents' = Append(agents, [agent EXCEPT !.name = @ \o <<" ", "C", "o", "p", "y">>])
  /\ uuids' = uuids + 1
  /\ UNCHANGED <<serverVars, uploadResult, emailColumn, nameColumn, sending,
                 sendResult, fromEmail, fromName, reading, call>>

\* An agent's Duplicate button.
handleDuplicateAgent(id) ==
  /\ \E a \in 1..Len(agents) : agents[a].id = id
  /\ Len(agents) < MaxPageAgents
  /\ uuids < MaxUuids
  /\ LET agent == agents[CHOOSE a \in 1..Len(agents) : agents[a].id = id]
     IN  agents' = Append(agents, [agent EXCEPT !.id = Uuid(uuids + 1),
                                                !.name = @ \o <<" ", "C", "o", "p", "y">>])
  /\ uuids' = uuids + 1
  /\ UNCHANGED <<serverVars, uploadResult, emailColumn, nameColumn, sending,
                 sendResult, fromEmail, fromName, reading, call>>

\* An agent's Remove button, disabled while the agent is the only one.
handleRemoveAgent(id) ==
  /\ Len(agents) # 1
  /\ agents' = SelectSeq(agents, LAMBDA agent : agent.id # id)
  /\ UNCHANGED <<serverVars, uploadResult, emailColumn, nameColumn, sending,
                 sendResult, fromEmail, fromName, reading, uuids, call>>

\* A click on the Send campaign button, which is not disabled.
ClickSend ==
  /\ uploadResult.loaded
  /\ ~SendButtonDisabled
  /\ handleSend

\* The page as constructed.  The operator is offline: the fetch of a send
\* is rejected.
InitPage ==
  /\ Entered
  /\ Constructed
  /\ json = [r \in Reqs |-> MalformedBody]
  /\ env = [r \in Reqs |-> IF r = 1 THEN PageEnv ELSE UnsetEnv]
  /\ pc = [r \in Reqs |-> "idle"]
  /\ script = [r \in Reqs |-> r]
  /\ call = NoCall

\* No send has been started yet.
BeforeSend == pc[1] = "idle"

\* The page is followed up to its first send and through that send.
NextPage ==
  \/ \E file \in PageFiles : BeforeSend /\ handleUpload(file)
  \/ \E file \in PageFiles : BeforeSend /\ UploadSucceeds(file)
  \/ \E file \in PageFiles : BeforeSend /\ UploadFails(file)
  \/ BeforeSend /\ handleReset
  \/ \E value \in ColumnOptions : BeforeSend /\ setEmailColumn(value)
  \/ \E a \in 1..Len(agents) :
       \E patch \in AgentPatches(agents[a]) :
         BeforeSend /\ handleAgentChange(agents[a].id, patch)
  \/ BeforeSend /\ handleCreateAgent
  \/ \E a \in 1..Len(agents) : BeforeSend /\ handleDuplicateAgent(agents[a].id)
  \/ \E a \in 1..Len(agents) : BeforeSend /\ handleRemoveAgent(agents[a].id)
  \/ ClickSend
  \/ FetchRejects

SpecPage == InitPage /\ [][NextPage]_vars

(***************************************************************************)
(* Calls of the page's pure functions, applyFilter and renderTemplate: the *)
(* rows, filters and templates they are checked on.                        *)
(***************************************************************************)
NickHeader == <<"N", "i", "c", "k">>
ToStringKey == <<"t", "o", "S", "t", "r", "i", "n", "g">>

\* Rows: the columns of a sheet; a cell that holds placeholder text and two
\* columns that differ in case only; no column at all; an empty cell and a
\* column name of two words.
CallRows ==
  {<<<<EmailHeader, AnnEmail>>, <<NameHeader, <<"A", "n", "n">>>>, <<PlanHeader, <<"P", "r", "o">>>>>>,
   <<<<NameHeader, <<"{", "{", "P", "l", "a", "n", "}", "}">>>>, <<PlanHeader, <<"P", "r", "o">>>>, <<<<"n", "a", "m", "e">>, <<"l", "o", "w">>>>>>,
   <<>>,
   <<<<PlanHeader, <<>>>>, <<<<"F", "i", "r", "s", "t", " ", "N", "a", "m", "e">>, <<"A", "l">>>>>>}

\* The operators of the select, and one that is none of them.
CallOperators == {"equals", "contains", "startsWith", "endsWith", "matches"}

\* Filters: none, and every operator on no column, a column of the sheet, a
\* column no row has, and a column no row has that every object inherits,
\* with no value and with values in either case.
CallFilters ==
  {NoFilter} \cup
  {FilterOn(column, operator, value) :
     column \in {<<>>, PlanHeader, NickHeader, ToStringKey},
     operator \in CallOperators,
     value \in {<<>>, <<"P", "R", "O">>, <<"p", "r">>, <<"O">>}}

\* Templates: no token, keys in either case and in blanks, a key no column
\* has, braces around nothing, an inherited key, two tokens, braces that do
\* not close.
CallTemplates ==
  {<<"x">>,
   <<"H", "i", " ", "{", "{", "N", "a", "m", "e", "}", "}">>,
   <<"{", "{", " ", "n", "a", "m", "e", " ", "}", "}", "!">>,
   <<"{", "{", "N", "A", "M", "E", "}", "}">>,
   <<"{", "{", "N", "i", "c", "k", "}", "}">>,
   <<"{", "{", "}", "}">>,
   <<"{", "{", " ", "}", "}">>,
   <<"{", "{", "t", "o", "S", "t", "r", "i", "n", "g", "}", "}">>,
   <<"{", "{", "P", "l", "a", "n", "}", "}", "{", "{", "N", "a", "m", "e", "}", "}">>,
   <<"{", "{", "N", "a", "m", "e", "}", "b", "}", "}", " ", "{", "{", "P", "l", "a", "n", "}", "}">>,
   <<"{", "{", "f", "i", "r", "s", "t", " ", "n", "a", "m", "e", "}", "}">>,
   <<"{", "{", "{", "P", "l", "a", "n", "}", "}">>,
   <<"a", "{", "{", "P", "l", "a", "n", "}">>}

InitCalls ==
  /\ Entered
  /\ Constructed
  /\ json = [r \in Reqs |-> MalformedBody]
  /\ env = [r \in Reqs |-> UnsetEnv]
  /\ pc = [r \in Reqs |-> "idle"]
  /\ script = [r \in Reqs |-> r]
  /\ \/ \E row \in CallRows, filter \in CallFilters : call = FilterCall(row, filter)
     \/ \E template \in CallTemplates, row \in CallRows : call = RenderCall(template, row)

NextCalls ==
  \/ CallApplyFilter
  \/ CallRenderTemplate

SpecCalls == InitCalls /\ [][NextCalls]_vars

(***************************************************************************)
(* Properties of the endpoint.                                             *)
(***************************************************************************)
Done(r) == pc[r] = "done"

\* The places of a request's recipients in dispatch order: agent by agent,
\* and within an agent recipient by recipient.
RECURSIVE PlacesFrom(_, _)
PlacesFrom(ags, a) ==
  IF a > Len(ags) THEN <<>>
  ELSE [r \in 1..Len(ags[a].recipients) |-> <<a, r>>] \o PlacesFrom(ags, a + 1)

Places(r) == PlacesFrom(Agents(r), 1)

\* C1. Abort on first failure: once the transport has failed on a call, that
\* call is the request's last (no recipient after it, of the same or of a
\* later agent, is handed to the transport), the request is over, and its
\* one response is the failure (ok false, no totals) naming the address of
\* the recipient that failed; the calls made before it stay made.
C1_AbortOnFirstFailure ==
  \A r \in Reqs : \A k \in 1..Len(settled[r]) :
    ~settled[r][k] =>
      /\ Len(calls[r]) = k
      /\ \A j \in 1..(k - 1) : settled[r][j] /\ calls[r][j].address = Agents(r)[Places(r)[j][1]].recipients[Places(r)[j][2]].to
      /\ Done(r)
      /\ inFlight[r] = {}
      /\ response[r].ok = FALSE
      /\ response[r].status = 500
      /\ response[r].recipient = calls[r][k].address
      /\ response[r].recipient = Agents(r)[Places(r)[k][1]].recipients[Places(r)[k][2]].to
      /\ response[r].total = 0 /\ response[r].agents = 0

\* The spec's example: of agents A and B with two recipients each, A's
\* second recipient fails after A's first was sent.
C1_Witness ==
  \E r \in Reqs :
    /\ Done(r)
    /\ Len(Agents(r)) = 2
    /\ Len(Agents(r)[1].recipients) = 2 /\ Len(Agents(r)[2].recipients) = 2
    /\ settled[r] = <<TRUE, FALSE>>
    /\ response[r].status = 500

\* The request's structure as the claim lists it: no agents, an agent
\* without recipients, a recipient whose `to` is no e-mail address, or an
\* empty subject or body.
StructurallyInvalid(body) ==
  \/ body.agents = <<>>
  \/ \E a \in 1..Len(body.agents) :
       \/ body.agents[a].recipients = <<>>
       \/ \E i \in 1..Len(body.agents[a].recipients) :
            LET rc == body.agents[a].recipients[i]
            IN  ~IsEmail(rc.to) \/ rc.subject = <<>> \/ rc.body = <<>>

ValidRecipient(rc) == IsEmail(rc.to) /\ rc.subject # <<>> /\ rc.body # <<>>

\* C2. A structurally invalid request never gets a transport and never a
\* send, and once validated it is over with the 422 response that lists
\* the violations.
C2_InvalidRejectedWholesale ==
  \A r \in Reqs :
    (pc[r] # "idle" /\ ~json[r].malformed /\ StructurallyInvalid(json[r])) =>
      /\ calls[r] = <<>>
      /\ inFlight[r] = {}
      /\ transport[r] = NoTransport
      /\ pc[r] \in {"received", "validate", "done"}
      /\ Done(r) => /\ response[r].status = 422
                    /\ response[r].ok = FALSE
                    /\ response[r].issues # {}

\* A rejected request that holds an agent whose recipients are all valid
\* beside an invalid recipient of another agent.
C2_Witness ==
  \E r \in Reqs :
    /\ Done(r)
    /\ response[r].status = 422
    /\ \E a \in 1..Len(Agents(r)) :
         /\ Agents(r)[a].recipients # <<>>
         /\ \A i \in 1..Len(Agents(r)[a].recipients) :
              ValidRecipient(Agents(r)[a].recipients[i])
    /\ \E a \in 1..Len(Agents(r)) : \E i \in 1..Len(Agents(r)[a].recipients) :
         ~ValidRecipient(Agents(r)[a].recipients[i])

\* No sender e-mail in the request and none in the process-level defaults.
NoSenderEmail(r) ==
  /\ json[r].from.email \in {Undefined, <<>>}
  /\ env[r].MAIL_FROM \in {Undefined, <<>>}
  /\ env[r].SMTP_FROM \in {Undefined, <<>>}
  /\ env[r].SMTP_USER \in {Undefined, <<>>}

\* C3. With no sender e-mail from either source a request never gets a
\* transport or a send and is never answered ok; a request that passed
\* validation is answered with the missing-sender failure.
C3_MissingSenderRejected ==
  \A r \in Reqs :
    (pc[r] # "idle" /\ ~json[r].malformed /\ NoSenderEmail(r)) =>
      /\ calls[r] = <<>>
      /\ inFlight[r] = {}
      /\ transport[r] = NoTransport
      /\ dryRun[r] = FALSE
      /\ pc[r] \in {"received", "validate", "resolveFrom", "done"}
      /\ Done(r) =>
           /\ response[r].ok = FALSE
           /\ SchemaIssues(json[r]) = {} =>
                /\ response[r] = MissingSenderResponse
                /\ fromHeader[r] = Null

\* A valid request with recipients, rejected for its missing sender although
\* a sender name is there.
C3_Witness ==
  \E r \in Reqs :
    /\ Done(r)
    /\ response[r] = MissingSenderResponse
    /\ Agents(r) # <<>>
    /\ ~StructurallyInvalid(json[r])
    /\ Truthy(env[r].MAIL_FROM_NAME)

\* The default sender e-mail of the configuration, if any.
DefaultSenderEmail(e) ==
  OrElse(e.MAIL_FROM, OrElse(e.SMTP_FROM, OrElse(e.SMTP_USER, <<>>)))

\* C4. Sender fallback: a request whose from e-mail is absent or empty (the
\* page sends the empty text of its input) is dispatched under the default
\* sender e-mail when the configuration has one: it is not rejected, and
\* its sender header carries the default e-mail.
C4_EmptyFromFallsBack ==
  \A r \in Reqs :
    (/\ Done(r)
     /\ ~json[r].malformed
     /\ ~StructurallyInvalid(json[r])
     /\ json[r].from.email \in {Undefined, <<>>}
     /\ Truthy(DefaultSenderEmail(env[r]))) =>
      /\ response[r].status \in {200, 500}
      /\ calls[r] # <<>>
      /\ fromHeader[r] \in
           {DefaultSenderEmail(env[r]),
            NameAddr(OrElse(json[r].from.name,
                            OrElse(env[r].MAIL_FROM_NAME,
                                   OrElse(env[r].SMTP_FROM_NAME,
                                          OrElse(env[r].MAIL_FROM, <<>>)))),
                     DefaultSenderEmail(env[r]))}

\* C5. One send at a time, in order: at most one call of a request is in
\* flight and it is the latest; the k-th call is for the k-th recipient in
\* dispatch order; and a call is made only when every earlier one has
\* settled.
C5_OneAtATimeInOrder ==
  \A r \in Reqs :
    /\ Cardinality(inFlight[r]) <= 1
    /\ Len(calls[r]) <= Len(Places(r))
    /\ \A k \in 1..Len(calls[r]) :
         /\ <<calls[r][k].agent, calls[r][k].recipient>> = Places(r)[k]
         /\ calls[r][k].address = Agents(r)[Places(r)[k][1]].recipients[Places(r)[k][2]].to
    /\ Len(settled[r]) \in {Len(calls[r]), Len(calls[r]) - 1}
    /\ inFlight[r] = IF Len(settled[r]) < Len(calls[r])
                     THEN {Places(r)[Len(calls[r])]} ELSE {}
    /\ (inFlight[r] # {}) = (pc[r] = "await")

\* The first recipient of the second agent is in flight after both
\* recipients of the first agent were sent.
C5_Witness ==
  \E r \in Reqs :
    /\ inFlight[r] = {<<2, 1>>}
    /\ Len(calls[r]) = 3
    /\ settled[r] = <<TRUE, TRUE>>

\* C6. On full success the summary has one entry per agent of the request,
\* in order, with the agent's id and its number of recipients; the total
\* in the response is their sum and the number of transport calls made, and
\* the agent count in the response is the number of agents.
C6_SuccessSummary ==
  \A r \in Reqs :
    (Done(r) /\ response[r].ok) =>
      /\ response[r].status = 200
      /\ Len(summary[r]) = Len(Agents(r))
      /\ \A a \in 1..Len(Agents(r)) :
           /\ summary[r][a].agentId = Agents(r)[a].id
           /\ summary[r][a].sent = Len(Agents(r)[a].recipients)
      /\ response[r].total = Len(Places(r))
      /\ response[r].total = Len(calls[r])
      /\ \A k \in 1..Len(settled[r]) : settled[r][k]
      /\ Len(settled[r]) = Len(calls[r])
      /\ response[r].agents = Len(Agents(r))

\* A success of two agents with a different number of recipients.
C6_Witness ==
  \E r \in Reqs :
    /\ Done(r) /\ response[r].ok
    /\ Len(Agents(r)) = 2
    /\ Len(Agents(r)[1].recipients) = 2
    /\ Len(Agents(r)[2].recipients) = 1
    /\ response[r].total = 3

HostAbsent(e) == e.SMTP_HOST \in {Undefined, <<>>}

MentionsDryRun(resp) ==
  resp.template = "Dry run: generated ${total} email payloads across ${summary.length} agents. Configure SMTP_HOST to send live emails."

ErrorLog(r) == SelectSeq(log[r], LAMBDA rec : rec.level = "error")

\* C8. A dry run and a live run of the same request under the same transport
\* outcomes: when both are over they made the same calls in the same order,
\* got the same outcomes, stopped at the same recipient and answered with
\* the same status, ok flag, total and agent count; the dry run alone wrote
\* one trace record per send that succeeded.
C8_DryRunSameSemantics ==
  (Done(1) /\ Done(2) /\ script[1] = script[2] /\ json[1] = json[2]) =>
    /\ calls[1] = calls[2]
    /\ settled[1] = settled[2]
    /\ summary[1] = summary[2]
    /\ response[1].status = response[2].status
    /\ response[1].ok = response[2].ok
    /\ response[1].total = response[2].total
    /\ response[1].agents = response[2].agents
    /\ response[1].recipient = response[2].recipient
    /\ response[1].issues = response[2].issues
    /\ ErrorLog(1) = ErrorLog(2)
    /\ transport[1] # NoTransport =>
         /\ dryRun[1] /\ ~dryRun[2]
         /\ Len(log[1]) - Len(ErrorLog(1)) = Len(SelectSeq(settled[1], LAMBDA ok : ok))
         /\ log[2] = ErrorLog(2)

\* Both runs are over after a failure on the third recipient.
C8_Witness ==
  /\ Done(1) /\ Done(2)
  /\ dryRun[1] /\ ~dryRun[2]
  /\ settled[1] = <<TRUE, TRUE, FALSE>>
  /\ settled[2] = <<TRUE, TRUE, FALSE>>
  /\ Len(log[1]) = 3 /\ Len(log[2]) = 1


(***************************************************************************)
(* Properties of the page's handleSend.                                    *)
(***************************************************************************)
\* The value of the e-mail column in a row, after trimming; empty when the
\* row has no such column.
EmailCell(row) ==
  IF OwnGet(row, emailColumn) = Undefined THEN <<>>
  ELSE Trim(OwnGet(row, emailColumn))

\* The rows of the table that pass an agent's filter and have an e-mail, in
\* the table's order.
QualifyingRows(agent) ==
  SelectSeq(uploadResult.rows,
            LAMBDA row : applyFilter(row, agent.filter) /\ EmailCell(row) # <<>>)

\* The agents of the request that have the id of a page agent.
PreparedFor(agent) ==
  SelectSeq(json[1].agents, LAMBDA prepared : prepared.id = agent.id)

\* A recipient list is the qualifying rows of the agent, row by row.
MirrorsRows(recipients, agent) ==
  /\ Len(recipients) = Len(QualifyingRows(agent))
  /\ \A k \in 1..Len(recipients) :
       /\ recipients[k].variables = QualifyingRows(agent)[k]
       /\ recipients[k].to = EmailCell(QualifyingRows(agent)[k])
       /\ recipients[k].to # <<>>

\* C9. The recipients resolved for an agent are the rows that pass its
\* filter and have a non-empty trimmed e-mail, one recipient per row, in the
\* table's order: so for every agent of the page whenever a sheet is loaded,
\* and so in the request handleSend sends, where no recipient has an empty
\* `to`.
C9_RecipientsMirrorRows ==
  /\ uploadResult.loaded =>
       \A a \in 1..Len(agents) :
         MirrorsRows(ResolveRecipients(agents[a], uploadResult.rows,
                                       emailColumn, nameColumn), agents[a])
  /\ pc[1] # "idle" =>
       /\ \A a \in 1..Len(agents) :
            \A p \in 1..Len(PreparedFor(agents[a])) :
              MirrorsRows(PreparedFor(agents[a])[p].recipients, agents[a])
       /\ \A p \in 1..Len(json[1].agents) :
            /\ \E a \in 1..Len(agents) : agents[a].id = json[1].agents[p].id
            /\ \A k \in 1..Len(json[1].agents[p].recipients) :
                 json[1].agents[p].recipients[k].to # <<>>

\* A request was sent from a sheet of three rows whose middle row has no
\* e-mail: an agent without a filter has the first and the third row, which
\* share an address, as two recipients, and a filtering agent has fewer.
C9_Witness ==
  /\ pc[1] # "idle"
  /\ Len(uploadResult.rows) = 3
  /\ EmailCell(uploadResult.rows[2]) = <<>>
  /\ Len(json[1].agents) = 2
  /\ Len(json[1].agents[1].recipients) = 2
  /\ json[1].agents[1].recipients[1].to = json[1].agents[1].recipients[2].to
  /\ json[1].agents[1].recipients[1].variables = uploadResult.rows[1]
  /\ json[1].agents[1].recipients[2].variables = uploadResult.rows[3]
  /\ agents[2].filter.present
  /\ Len(json[1].agents[2].recipients) = 1

\* The ids of the page's agents that have a qualifying row, in the page's
\* order.
AgentsWithRecipients ==
  SelectSeq(agents, LAMBDA agent : QualifyingRows(agent) # <<>>)

\* C10. A request that handleSend sends holds exactly the page's agents that
\* have a recipient, in the page's order, none of them with an empty list;
\* and with a sheet loaded but no e-mail column selected, or no agent with
\* a recipient, nothing reaches the endpoint or the transport and the
\* result handleSend sets is the error.
C10_EmptyAgentsDropped ==
  /\ pc[1] # "idle" =>
       /\ json[1].agents # <<>>
       /\ Len(json[1].agents) = Len(AgentsWithRecipients)
       /\ \A p \in 1..Len(json[1].agents) :
            /\ json[1].agents[p].id = AgentsWithRecipients[p].id
            /\ json[1].agents[p].name = AgentsWithRecipients[p].name
            /\ json[1].agents[p].recipients # <<>>
  /\ (uploadResult.loaded /\ (emailColumn = <<>> \/ AgentsWithRecipients = <<>>)) =>
       /\ pc[1] = "idle"
       /\ ~sending
       /\ json[1] = MalformedBody
       /\ calls[1] = <<>>
       /\ transport[1] = NoTransport
       /\ sendResult \in {NoResult,
                          IF emailColumn = <<>> THEN SelectColumnResult
                          ELSE NoRecipientsResult}

\* handleSend has set the no-recipients error with an e-mail column
\* selected: no agent of the page had a recipient.
C10_Witness ==
  /\ sendResult = NoRecipientsResult
  /\ uploadResult.loaded
  /\ emailColumn # <<>>
  /\ Len(agents) = 2
  /\ pc[1] = "idle"


(***************************************************************************)
(* Properties of the distinct-recipient count.                             *)
(***************************************************************************)
\* The `to` values of the recipients handleSend resolves for the page's
\* agents, as a set.
ResolvedAddresses ==
  UNION {{ResolveRecipients(agents[a], uploadResult.rows, emailColumn,
                            nameColumn)[k].to :
            k \in 1..Len(ResolveRecipients(agents[a], uploadResult.rows,
                                           emailColumn, nameColumn))} :
         a \in 1..Len(agents)}

\* C11. The distinct-recipient count the page shows is the size of the set
\* of `to` values over every agent's resolved recipients, while the request
\* handleSend sends holds one recipient per agent and row: the count is at
\* most the number of agent-recipient pairs, and a dispatch that succeeds
\* has called the transport once per pair and reports that number as total.
C11_DistinctCountVsSends ==
  /\ totalRecipients = Cardinality(ResolvedAddresses)
  /\ pc[1] # "idle" =>
       /\ totalRecipients <= Len(Places(1))
       /\ Len(calls[1]) <= Len(Places(1))
       /\ (Done(1) /\ response[1].status = 200) =>
            /\ Len(calls[1]) = Len(Places(1))
            /\ response[1].total = Len(Places(1))
            /\ totalRecipients <= response[1].total

\* Two agents matched the same single address: the count is 1 and the
\* dispatch made two sends, one per agent.
C11_Witness ==
  /\ Done(1)
  /\ response[1].status = 200
  /\ Len(agents) = 2
  /\ totalRecipients = 1
  /\ Len(calls[1]) = 2
  /\ calls[1][1].agent # calls[1][2].agent
  /\ calls[1][1].address = calls[1][2].address


(***************************************************************************)
(* Properties of the filter evaluator.                                     *)
(***************************************************************************)
KnownOperators == {"equals", "contains", "startsWith", "endsWith"}

\* The value a row has in a column, the empty string when it has no such
\* column.
CellOrEmpty(row, column) ==
  IF OwnGet(row, column) = Undefined THEN <<>> ELSE OwnGet(row, column)

\* What the filter evaluator is to return for a row and a filter.
FilterVerdict(row, filter) ==
  IF \/ ~filter.present
     \/ filter.column = <<>>
     \/ filter.value = <<>>
     \/ filter.operator \notin KnownOperators
  THEN TRUE
  ELSE LET cell == ToLower(CellOrEmpty(row, filter.column))
           wanted == ToLower(filter.value)
       IN  CASE filter.operator = "equals" -> cell = wanted
             [] filter.operator = "contains" -> Includes(cell, wanted)
             [] filter.operator = "startsWith" -> StartsWith(cell, wanted)
             [] filter.operator = "endsWith" -> EndsWith(cell, wanted)

Replacements(row, key) ==
  IF OwnGet(row, key) # Undefined THEN {OwnGet(row, key)}
  ELSE LET alike == {i \in 1..Len(row) : ToLower(Trim(row[i][1])) = ToLower(key)}
       IN  IF alike = {} THEN {<<>>} ELSE {row[i][2] : i \in alike}

RECURSIVE Renderings(_, _, _)
\* The texts a template may render to from place i on, every token replaced
\* by one of its replacements and everything else kept.
Renderings(t, i, row) ==
  IF i > Len(t) THEN {<<>>}
  ELSE IF TokenEnd(t, i) # 0
       THEN {value \o rest :
               value \in Replacements(row, Trim(SubSeq(t, i + 2, TokenEnd(t, i) - 2))),
               rest \in Renderings(t, TokenEnd(t, i) + 1, row)}
       ELSE {<<t[i]>> \o rest : rest \in Renderings(t, i + 1, row)}

\* C13. For every template and row, renderTemplate replaces every token by
\* the value of the column named exactly as the trimmed key, else by the
\* value of a column of that name but for case and blanks, else by the empty
\* string: nothing else is ever written in a token's place.
C13_TokensResolved ==
  (call.fn = "renderTemplate" /\ call.results # <<>>) =>
    /\ ~call.threw
    /\ \A k \in 1..Len(call.results) :
         call.results[k] \in Renderings(call.template, 1, call.row)


RECURSIVE TokensFrom(_, _)
\* The tokens of a template from place i on, each as <<first, last>> place,
\* from left to right.
TokensFrom(t, i) ==
  IF i > Len(t) THEN <<>>
  ELSE IF TokenEnd(t, i) # 0
       THEN <<<<i, TokenEnd(t, i)>>>> \o TokensFrom(t, TokenEnd(t, i) + 1)
       ELSE TokensFrom(t, i + 1)

\* The value the n-th token of a template stands for in a row.
ValueOfToken(t, row, n) ==
  TokenValue(t, TokensFrom(t, 1)[n][1], TokensFrom(t, 1)[n][2], row)

RECURSIVE Growth(_, _, _)
\* By how much the first n tokens' values are longer than the tokens.
Growth(t, row, n) ==
  IF n = 0 THEN 0
  ELSE Growth(t, row, n - 1) + Len(ValueOfToken(t, row, n))
         - (TokensFrom(t, 1)[n][2] - TokensFrom(t, 1)[n][1] + 1)

\* C14. Rendering is one pass: calls of renderTemplate on the same template
\* and row return the same text; a template without a token is returned as
\* it is; and the text returned holds, in the place of each token, that
\* token's value as the row has it, also when the value is itself
\* placeholder text, the rest of the template being as long as it was.
C14_SinglePass ==
  (call.fn = "renderTemplate" /\ call.results # <<>>) =>
    LET t == call.template
        out == call.results[1]
        tokens == TokensFrom(t, 1)
    IN  /\ \A k \in 1..Len(call.results) : call.results[k] = out
        /\ tokens = <<>> => out = t
        /\ Len(out) = Len(t) + Growth(t, call.row, Len(tokens))
        /\ \A n \in 1..Len(tokens) :
             SubSeq(out, tokens[n][1] + Growth(t, call.row, n - 1),
                    tokens[n][1] + Growth(t, call.row, n - 1)
                      + Len(ValueOfToken(t, call.row, n)) - 1)
               = ValueOfToken(t, call.row, n)

\* A template was rendered twice against a row whose Name cell holds the
\* text of a placeholder for Plan: both results hold that text, not the plan.
C14_Witness ==
  /\ call.fn = "renderTemplate"
  /\ call.template = <<"H", "i", " ", "{", "{", "N", "a", "m", "e", "}", "}">>
  /\ OwnGet(call.row, NameHeader) = <<"{", "{", "P", "l", "a", "n", "}", "}">>
  /\ OwnGet(call.row, PlanHeader) = <<"P", "r", "o">>
  /\ call.results = <<<<"H", "i", " ", "{", "{", "P", "l", "a", "n", "}", "}">>, <<"H", "i", " ", "{", "{", "P", "l", "a", "n", "}", "}">>>>


AgentListInv ==
  /\ uploadResult.loaded => agents # <<>>
  /\ ~uploadResult.loaded => agents = <<>>
  /\ \A a, b \in 1..Len(agents) : a # b => agents[a].id # agents[b].id

\* An edit of an agent leaves every agent of another id as it was, and
\* every id and the order of the agents as they were.
EditsOnlyThatAgent ==
  \A a \in 1..Len(agents) : \A patch \in AgentPatches(agents[a]) :
    handleAgentChange(agents[a].id, patch) =>
      /\ Len(agents') = Len(agents)
      /\ \A b \in 1..Len(agents) :
           /\ agents'[b].id = agents[b].id
           /\ agents[b].id # agents[a].id => agents'[b] = agents[b]
      /\ agents'[a] = Patched(agents[a], patch)

\* C18. After any sequence of uploads that succeed or fail, resets, added,
\* duplicated, removed and edited agents, the agent list is non-empty when
\* a sheet is loaded and empty when none is, the agents' ids are pairwise
\* distinct, and an edit changes only the agent of the id it is given.
C18_AgentListKept ==
  []AgentListInv /\ [][EditsOnlyThatAgent]_vars

\* Two agents after an upload, a duplicate and an edit: the first filtered,
\* the second the copy as it was made, under the second id given.
C18_Witness ==
  /\ uploadResult.loaded
  /\ Len(agents) = 2
  /\ uuids = 2
  /\ agents[1].name = <<"G", "e", "n", "e", "r", "a", "l", " ", "O", "u", "t", "r", "e", "a", "c", "h">>
  /\ agents[1].filter.present
  /\ agents[2].name = <<"G", "e", "n", "e", "r", "a", "l", " ", "O", "u", "t", "r", "e", "a", "c", "h", " ", "C", "o", "p", "y">>
  /\ ~agents[2].filter.present
  /\ agents[2].id = Uuid(2)
  /\ agents[1].id = Uuid(1)


(***************************************************************************)
(* Two requests handled at once.  Requests 1 and 2 take their steps in any *)
(* order, each answered by a transport script of its own; request 3 is     *)
(* request 1 once more, handled when no other request is: the same body    *)
(* and configuration, answered by request 1's script.                      *)
(***************************************************************************)
\* A server with a mail host and a sender address.
LiveEnv == [UnsetEnv EXCEPT !.SMTP_HOST = SmtpHostName, !.MAIL_FROM = MailFromEmail]

\* The shapes of a request every agent of which has a recipient.
SendingShapes ==
  {sh \in Shapes : sh # <<>> /\ \A a \in 1..Len(sh) : sh[a] >= 1}

\* The shapes of the request handled next to request 1.
OtherShapes == {<<2>>, <<1, 1>>}

InitConcurrent ==
  /\ Entered
  /\ Constructed
  /\ \E sh \in SendingShapes, other \in OtherShapes :
       json = [r \in Reqs |->
                 IF r = 2
                 THEN Body(SampleAgents(other, NoDefect),
                           [present |-> TRUE, email |-> OpsEmail, name |-> <<"O", "p", "s">>])
                 ELSE Body(SampleAgents(sh, NoDefect), NoFrom)]
  /\ env = [r \in Reqs |-> LiveEnv]
  /\ pc = [r \in Reqs |-> "received"]
  /\ script = [r \in Reqs |-> IF r = 2 THEN 2 ELSE 1]
  /\ call = NoCall

NextConcurrent ==
  \/ \E r \in {1, 2} : POST(r)
  \/ Done(1) /\ Done(2) /\ POST(3)

SpecConcurrent == InitConcurrent /\ [][NextConcurrent]_vars

\* The recipients of a request.
RecipientsOf(r) ==
  Flatten([a \in 1..Len(Agents(r)) |-> Agents(r)[a].recipients])

\* C16. Requests handled at once are independent: whatever the order of
\* their steps, a request makes the sends, in the order, up to the point,
\* and gives the response (status, ok flag, total, agent count, failed
\* recipient) that it makes and gives when handled alone under the same
\* transport outcomes; a send that fails in the other request neither ends
\* this one nor changes its counts.
C16_RequestsIndependent ==
  /\ (Done(1) /\ Done(3)) =>
       /\ calls[1] = calls[3]
       /\ settled[1] = settled[3]
       /\ summary[1] = summary[3]
       /\ log[1] = log[3]
       /\ response[1] = response[3]
  /\ \A r \in {1, 2} :
       (Done(r) /\ \A k \in 1..Len(settled[r]) : settled[r][k]) =>
         /\ response[r].ok
         /\ response[r].total = Len(RecipientsOf(r))
         /\ response[r].agents = Len(Agents(r))
         /\ Len(calls[r]) = Len(RecipientsOf(r))

\* Request 2 ended at its first send, which failed; request 1, of two
\* agents, made its three sends next to it and succeeded, as it does alone.
C16_Witness ==
  /\ Done(1) /\ Done(2) /\ Done(3)
  /\ response[2].status = 500
  /\ Len(calls[2]) = 1
  /\ Len(Agents(1)) = 2
  /\ Len(calls[1]) = 3
  /\ response[1].ok
  /\ response[1].total = 3
  /\ response[3].total = 3


\* C17. Every recipient the page resolves passes the endpoint's validation
\* of recipients: in the request handleSend sends, each recipient has an
\* e-mail address in `to` and a subject and a body that are not empty, and
\* the endpoint does not answer that request with the 422 of an invalid
\* payload on account of a recipient.
C17_ResolvedRecipientsAccepted ==
  pc[1] # "idle" =>
    /\ \A a \in 1..Len(Agents(1)) : \A i \in 1..Len(Agents(1)[a].recipients) :
         ValidRecipient(Agents(1)[a].recipients[i])
    /\ Done(1) => \A issue \in response[1].issues : issue.recipient = 0

=============================================================================
